---- MODULE Spec2Model ----
(***************************************************************************)
(* Model of the batch validation engine of osrm-validator                  *)
(* (src/modules/osrm/validator.py, src/utils/helpers.py).                  *)
(*                                                                         *)
(* Python values are records [t, n, s]: t is the Python type, n the        *)
(* numeric value of a float in micro-degrees (1e-6 degree, the precision   *)
(* of polyline6), s the text of a str or the name of a non-finite float.   *)
(***************************************************************************)
EXTENDS Integers, Sequences, FiniteSets, TLC

\* ---------------------------------------------------------------- bounds
MaxRows == 2
MaxBatchSize == 2
MaxWorkers == 2
\* runs over rows that are decided without a request
MaxLocalRows == 5
MaxLocalBatch == 3

\* ------------------------------------------------------ program constants
\* process_route(..., max_retries=3, ...); process_batch passes no override
max_retries == 3
\* process_route(..., base_delay=2, jitter=0.5): the jitter in thousandths
base_delay == 2
jitter == 500

\* ---------------------------------------------------------- Python values
Float(n) == [t |-> "float", n |-> n, s |-> ""]
NaN == [t |-> "float", n |-> 0, s |-> "nan"]
Inf == [t |-> "float", n |-> 0, s |-> "inf"]
Str(s) == [t |-> "str", n |-> 0, s |-> s]
None == [t |-> "None", n |-> 0, s |-> ""]
\* a Python int of an object column, too large for a float (10**400)
HugeInt == [t |-> "int", n |-> 0, s |-> "10**400"]

IsFinite(v) == v.t = "float" /\ v.s = ""

\* The texts float() accepts, among the texts that occur in the model.
ParsedText == [s \in {"7", "nan", "inf"} |->
                 CASE s = "7" -> Float(7000000)
                   [] s = "nan" -> NaN
                   [] s = "inf" -> Inf]

\* float(v): the converted value, or the class of the exception it raises.
float_(v) ==
  CASE v.t = "float" -> [exc |-> "", val |-> v]
    [] v.t = "str" -> IF v.s \in DOMAIN ParsedText
                        THEN [exc |-> "", val |-> ParsedText[v.s]]
                        ELSE [exc |-> "ValueError", val |-> None]
    [] v.t = "int" -> IF v.s = ""
                        THEN [exc |-> "", val |-> Float(v.n * 1000000)]
                        ELSE [exc |-> "OverflowError", val |-> None]
    [] OTHER -> [exc |-> "TypeError", val |-> None]

\* ------------------------------------------------------------ input table
CoordCols == <<"origin_lon", "origin_lat", "dest_lon", "dest_lat">>
CoordColSet == {CoordCols[j] : j \in 1..4}
PassCols == {"store_number"}
AllCols == CoordColSet \cup PassCols

\* row[c] of a dict: the value, or KeyError
Subscript(row, c) ==
  IF c \in DOMAIN row THEN [exc |-> "", val |-> row[c]]
                      ELSE [exc |-> "KeyError", val |-> None]

\* row.get(c)
Get(row, c) == IF c \in DOMAIN row THEN row[c] ELSE None

\* ------------------------------------------------- Route Geometry Decoder
\* polyline._trans(value, index): one signed varint of the encoded path.
\* value is the text as a sequence of character codes (1-based index).
RECURSIVE Trans(_, _, _, _)
Trans(value, index, result, shift) ==
  IF index > Len(value)
    THEN [exc |-> TRUE, val |-> 0, index |-> index]      \* IndexError
    ELSE LET byte == value[index] - 63
             r == result + (byte % 32) * (2 ^ shift)
         IN IF byte >= 32
              THEN Trans(value, index + 1, r, shift + 5)
              ELSE [exc |-> FALSE,
                    val |-> IF r % 2 = 1 THEN -(r \div 2) - 1 ELSE r \div 2,
                    index |-> index + 1]

\* polyline.decode(geometry, 6): the (lat, lon) pairs in path order, in
\* micro-degrees, or exc when the text is truncated.
RECURSIVE Decode(_, _, _, _, _)
Decode(value, index, lat, lng, coordinates) ==
  IF index > Len(value)
    THEN [exc |-> FALSE, list |-> coordinates]
    ELSE LET a == Trans(value, index, 0, 0)
             b == Trans(value, a.index, 0, 0)
         IN IF a.exc \/ b.exc
              THEN [exc |-> TRUE, list |-> <<>>]
              ELSE Decode(value, b.index, lat + a.val, lng + b.val,
                          Append(coordinates,
                                 <<Float(lat + a.val), Float(lng + b.val)>>))

polyline_decode(geometry) == Decode(geometry, 1, 0, 0, <<>>)

\* A list-or-None result.
NoneList == [none |-> TRUE, list |-> <<>>]
SomeList(l) == [none |-> FALSE, list |-> l]
Truthy(r) == ~r.none /\ Len(r.list) > 0

\* 'routes' in d and d['routes'], then legs, then steps
HasSteps(route_data) ==
  /\ "routes" \in DOMAIN route_data
  /\ Len(route_data.routes) > 0
  /\ "legs" \in DOMAIN route_data.routes[1]
  /\ Len(route_data.routes[1].legs) > 0
  /\ "steps" \in DOMAIN route_data.routes[1].legs[1]
  /\ Len(route_data.routes[1].legs[1].steps) > 0

LastStep(route_data) ==
  LET steps == route_data.routes[1].legs[1].steps IN steps[Len(steps)]

\* the fallback of lines 70-78
ManeuverLocation(route_data) ==
  IF /\ HasSteps(route_data)
     /\ "maneuver" \in DOMAIN LastStep(route_data)
     /\ "location" \in DOMAIN LastStep(route_data).maneuver
    THEN SomeList(LastStep(route_data).maneuver.location)
    ELSE NoneList

\* variant: the maneuver location is looked at first
get_last_route_coordinate_maneuver_first(route_data) ==
  IF Truthy(ManeuverLocation(route_data))
    THEN ManeuverLocation(route_data)
    ELSE IF HasSteps(route_data) /\ "geometry" \in DOMAIN LastStep(route_data)
           THEN LET coordinates ==
                      polyline_decode(LastStep(route_data).geometry)
                IN IF coordinates.exc \/ Len(coordinates.list) = 0
                     THEN NoneList
                     ELSE LET last ==
                                coordinates.list[Len(coordinates.list)]
                          IN SomeList(<<last[2], last[1]>>)
           ELSE NoneList

\* lines 48-80
get_last_route_coordinate(route_data) ==
  IF HasSteps(route_data) /\ "geometry" \in DOMAIN LastStep(route_data)
    THEN LET coordinates == polyline_decode(LastStep(route_data).geometry)
         IN IF coordinates.exc
              THEN NoneList                      \* except Exception: None
              ELSE IF Len(coordinates.list) > 0
                     THEN LET last == coordinates.list[Len(coordinates.list)]
                          IN SomeList(<<last[2], last[1]>>)
                     ELSE ManeuverLocation(route_data)
    ELSE ManeuverLocation(route_data)

\* --------------------------------------------------------------- haversine
\* ValueError('math domain error'), raised by math.sin and math.cos for an
\* infinite argument
MathDomainError == [t |-> "exc", n |-> 0, s |-> "math domain error"]

\* The great-circle distance is kept as the term haversine(lon1, lat1,
\* lon2, lat2). With point 1 finite: an infinite coordinate of point 2
\* makes sin or cos raise, a NaN coordinate propagates as NaN.
haversine(lon1, lat1, lon2, lat2) ==
  IF \A v \in {lon1, lat1, lon2, lat2} : IsFinite(v)
    THEN [t |-> "float", hav |-> <<lon1, lat1, lon2, lat2>>]
    ELSE IF \E v \in {lon1, lat1, lon2, lat2} : v = Inf
           THEN MathDomainError
           ELSE NaN

\* ---------------------------------------------------- HTTP call outcomes
\* An exception is its class, the classes it is an instance of, and str(e).
Exc(cls, bases, msg) == [cls |-> cls, bases |-> bases, msg |-> msg]
NoExc == Exc("", {}, "")

TimeoutExc == Exc("Timeout", {"Timeout", "RequestException", "Exception"},
                  "Read timed out. (read timeout=30)")
HTTPErrorExc == Exc("HTTPError", {"HTTPError", "RequestException", "Exception"},
                    "500 Server Error")
ValueErrorExc == Exc("ValueError", {"ValueError", "Exception"},
                     "Expecting value: line 1 column 1 (char 0)")

\* Response bodies (response.json()).
\* "AC" is the polyline6 text of the path [(0.000001, 0.000002)].
GeometryBody ==
  [routes |-> << [legs |-> << [steps |-> <<
     [geometry |-> <<65, 67>>,
      maneuver |-> [location |-> <<Float(9), Float(8)>>]] >>] >>] >>]
ManeuverBody ==
  [routes |-> << [legs |-> << [steps |-> <<
     [maneuver |-> [location |-> <<Float(5), Float(6)>>]] >>] >>] >>]
EmptyRoutesBody == [routes |-> <<>>]
BadLocationBody ==
  [routes |-> << [legs |-> << [steps |-> <<
     [maneuver |-> [location |-> <<Float(5), Float(6), Float(7)>>]] >>] >>] >>]

\* What one pass through requests.get / raise_for_status / json() gives:
\* an exception (body unused) or a decoded body (exc = NoExc).
Raised(e) == [exc |-> e, body |-> EmptyRoutesBody]
Replied(b) == [exc |-> NoExc, body |-> b]
HttpOutcomes ==
  {Raised(TimeoutExc), Raised(HTTPErrorExc), Raised(ValueErrorExc),
   Replied(GeometryBody), Replied(ManeuverBody), Replied(EmptyRoutesBody),
   Replied(BadLocationBody)}
\* one outcome of each class process_route tells apart, for whole runs
RunHttpOutcomes ==
  {Raised(TimeoutExc), Raised(ValueErrorExc),
   Replied(GeometryBody), Replied(EmptyRoutesBody)}

\* ------------------------------------------------------------ process_route
Status(prefix, msg) == [prefix |-> prefix, msg |-> msg]
Success == Status("success", "")

Outcome(olon, olat, dlon, dlat, llon, llat, dist, status, retries) ==
  [origin_lon |-> olon, origin_lat |-> olat,
   dest_lon |-> dlon, dest_lat |-> dlat,
   last_route_lon |-> llon, last_route_lat |-> llat,
   distance_to_dest |-> dist, status |-> status, retries |-> retries]

\* the result of one step of process_route
Return(rec) == [kind |-> "return", rec |-> <<rec>>, retry_count |-> rec.retries]
Raise == [kind |-> "raise", rec |-> <<>>, retry_count |-> 0]
Continue(rc) == [kind |-> "continue", rec |-> <<>>, retry_count |-> rc]

\* str(e) of the exception float() raises
FloatMessage(cls) ==
  IF cls = "ValueError" THEN "could not convert string to float"
                        ELSE "float() argument must be a string or a real number"

\* lines 146-149: the four conversions, in order
Converted(row) ==
  [j \in 1..4 |->
     LET sub == Subscript(row, CoordCols[j])
     IN IF sub.exc # "" THEN sub ELSE float_(sub.val)]

FirstFailure(c) ==
  CHOOSE j \in 1..4 : c[j].exc # "" /\ \A k \in 1..(j - 1) : c[k].exc = ""

\* except (ValueError, TypeError)
CaughtByBuilding(cls) == cls \in {"ValueError", "TypeError"}

\* lines 145-171: Building
Building(row) ==
  LET c == Converted(row) IN
  IF \A j \in 1..4 : c[j].exc = ""
    THEN Continue(0)
    ELSE LET cls == c[FirstFailure(c)].exc IN
         IF CaughtByBuilding(cls)
           THEN Return(Outcome(Get(row, "origin_lon"), Get(row, "origin_lat"),
                               Get(row, "dest_lon"), Get(row, "dest_lat"),
                               None, None, None,
                               Status("error: invalid coordinates - ",
                                      FloatMessage(cls)),
                               0))
           ELSE Raise

\* variant: a bare `except Exception` in front of the retry branch
IsRetryable_any(e) == "Exception" \in e.bases

\* except (RequestException, HTTPError, ConnectionError, Timeout)
IsRetryable(e) ==
  e.bases \cap {"RequestException", "HTTPError", "ConnectionError", "Timeout"}
    # {}

\* variant: the budget test off by one
RetriesLeft_inclusive(retry_count) == retry_count <= max_retries

\* line 219
RetriesLeft(retry_count) == retry_count < max_retries

\* variant: an error record reports a distance of 0
ErrorOutcome_zero_distance(c, prefix, msg, retry_count) ==
  Outcome(c[1], c[2], c[3], c[4], None, None, Float(0),
          Status(prefix, msg), retry_count)

\* lines 201-211, 229-239, 243-253: the error records
ErrorOutcome(c, prefix, msg, retry_count) ==
  Outcome(c[1], c[2], c[3], c[4], None, None, None,
          Status(prefix, msg), retry_count)

\* variant: the success record reports 'retries': 0, as the record of
\* lines 151-161 does
OnCoordinate_zero_retries(c, last_coordinate, retry_count) ==
  IF Len(last_coordinate) = 2
       /\ last_coordinate[1].t = "float" /\ last_coordinate[2].t = "float"
       /\ haversine(last_coordinate[1], last_coordinate[2], c[3], c[4])
            # MathDomainError
    THEN [kind |-> "return",
          rec |-> <<Outcome(c[1], c[2], c[3], c[4],
                            last_coordinate[1], last_coordinate[2],
                            haversine(last_coordinate[1], last_coordinate[2],
                                      c[3], c[4]),
                            Success, 0)>>,
          retry_count |-> retry_count]
    ELSE Return(ErrorOutcome(c, "error: unexpected - ",
                             "cannot unpack", retry_count))

\* variant: the pair is unpacked as (lat, lon)
OnCoordinate_lat_first(c, last_coordinate, retry_count) ==
  IF Len(last_coordinate) # 2
    THEN Return(ErrorOutcome(c, "error: unexpected - ",
                             "wrong number of values to unpack", retry_count))
    ELSE LET last_lat == last_coordinate[1]
             last_lon == last_coordinate[2]
             distance == haversine(last_lon, last_lat, c[3], c[4])
         IN IF last_lon.t # "float" \/ last_lat.t # "float"
              THEN Return(ErrorOutcome(c, "error: unexpected - ",
                                       "must be real number", retry_count))
              ELSE IF distance = MathDomainError
                     THEN Return(ErrorOutcome(c, "error: unexpected - ",
                                              distance.s, retry_count))
                     ELSE Return(Outcome(c[1], c[2], c[3], c[4],
                                         last_lon, last_lat, distance,
                                         Success, retry_count))

\* lines 184-199: a truthy last_coordinate
OnCoordinate(c, last_coordinate, retry_count) ==
  IF Len(last_coordinate) # 2
    THEN Return(ErrorOutcome(c, "error: unexpected - ",
                             "wrong number of values to unpack", retry_count))
    ELSE LET last_lon == last_coordinate[1]
             last_lat == last_coordinate[2]
             distance == haversine(last_lon, last_lat, c[3], c[4])
         IN IF last_lon.t # "float" \/ last_lat.t # "float"
              THEN Return(ErrorOutcome(c, "error: unexpected - ",
                                       "must be real number", retry_count))
              ELSE IF distance = MathDomainError
                     THEN Return(ErrorOutcome(c, "error: unexpected - ",
                                              distance.s, retry_count))
                     ELSE Return(Outcome(c[1], c[2], c[3], c[4],
                                         last_lon, last_lat, distance,
                                         Success, retry_count))

\* variant: an absent coordinate is retried like a transport failure
OnResponse_retry_absent(c, route_data, retry_count) ==
  LET last_coordinate == get_last_route_coordinate(route_data) IN
  IF Truthy(last_coordinate)
    THEN OnCoordinate(c, last_coordinate.list, retry_count)
    ELSE IF RetriesLeft(retry_count)
           THEN Continue(retry_count + 1)
           ELSE Return(ErrorOutcome(c,
                                    "error: could not extract last coordinate",
                                    "", retry_count))

\* lines 179-211: a response was received
OnResponse(c, route_data, retry_count) ==
  LET last_coordinate == get_last_route_coordinate(route_data) IN
  IF Truthy(last_coordinate)
    THEN OnCoordinate(c, last_coordinate.list, retry_count)
    ELSE Return(ErrorOutcome(c, "error: could not extract last coordinate",
                             "", retry_count))

\* variant: the last exception is re-raised once the budget is spent
OnException_reraise(c, e, retry_count) ==
  IF IsRetryable(e)
    THEN IF RetriesLeft(retry_count)
           THEN Continue(retry_count + 1)
           ELSE Raise
    ELSE Return(ErrorOutcome(c, "error: unexpected - ", e.msg, retry_count))

\* lines 213-253: the try body raised e
OnException(c, e, retry_count) ==
  IF IsRetryable(e)
    THEN IF RetriesLeft(retry_count)
           THEN Continue(retry_count + 1)
           ELSE Return(ErrorOutcome(c, "error: ", e.msg, retry_count))
    ELSE Return(ErrorOutcome(c, "error: unexpected - ", e.msg, retry_count))

\* lines 173-253: one pass through the loop body
Attempt(row, retry_count, http) ==
  LET conv == Converted(row)
      c == [j \in 1..4 |-> conv[j].val]
  IN IF http.exc # NoExc
       THEN OnException(c, http.exc, retry_count)
       ELSE OnResponse(c, http.body, retry_count)

\* ------------------------------------------------------- add_retry_delay
\* variant: the delay grows linearly with the retry count
add_retry_delay_linear(retry_count, base, jit, u) ==
  LET delay == base * retry_count
  IN delay * 1000 + delay * u

\* add_retry_delay(retry_count, base_delay, jitter): the time slept, in
\* milliseconds, when random.uniform(-jitter, jitter) draws u thousandths
add_retry_delay(retry_count, base, jit, u) ==
  LET delay == base ^ retry_count
      jitter_value == u
      actual_delay == delay * 1000 + delay * jitter_value
  IN actual_delay

\* ------------------------------------------------------------- input rows
GoodRow ==
  [origin_lon |-> Float(3), origin_lat |-> Float(4),
   dest_lon |-> Float(2), dest_lat |-> Float(1), store_number |-> Str("S1")]
\* a column read as text: '7' converts, 'abc' does not (ValueError)
TextRow ==
  [origin_lon |-> Str("7"), origin_lat |-> Float(4),
   dest_lon |-> Float(2), dest_lat |-> Str("abc"), store_number |-> Str("S2")]
\* a null cell of an object column (TypeError)
NullRow ==
  [origin_lon |-> Float(3), origin_lat |-> None,
   dest_lon |-> Float(2), dest_lat |-> Float(1), store_number |-> Str("S3")]
\* a null cell of a numeric column
NaNRow ==
  [origin_lon |-> Float(3), origin_lat |-> Float(4),
   dest_lon |-> NaN, dest_lat |-> Float(1), store_number |-> Str("S4")]
\* text that float() accepts and that is not finite
InfTextRow ==
  [origin_lon |-> Float(3), origin_lat |-> Float(4),
   dest_lon |-> Float(2), dest_lat |-> Str("inf"), store_number |-> Str("S5")]
\* an int cell float() cannot convert (OverflowError)
HugeIntRow ==
  [origin_lon |-> HugeInt, origin_lat |-> Float(4),
   dest_lon |-> Float(2), dest_lat |-> Float(1), store_number |-> Str("S6")]
RowPool == {GoodRow, TextRow, NullRow, NaNRow, InfTextRow, HugeIntRow}
\* for whole runs: a row that reaches the network, one that is rejected
\* locally, one whose conversion raises
RunRowPool == {GoodRow, TextRow, HugeIntRow}

\* The columns a table may have: all of them, or dest_lat missing.
ColumnSets == {AllCols, AllCols \ {"dest_lat"}}
Project(row, cols) == [c \in cols |-> row[c]]

\* ------------------------------------------------------------------ state
VARIABLES
  df,               \* validate_routes: the input table, a sequence of rows
  batch_size,       \* validate_routes: argument
  max_workers,      \* validate_routes: argument
  pc,               \* position of the thread running validate_routes
  i,                \* validate_routes: index of the current batch
  task,             \* process_batch: the futures, one process_route call each
  http_log,         \* per future, the outcomes of the HTTP calls it issued
  yielded,          \* process_batch: futures as_completed has yielded
  results,          \* process_batch: results
  success_count,    \* process_batch: success_count
  error_count,      \* process_batch: error_count
  retry_count,      \* process_batch: retry_count
  throttles,        \* process_batch: time.sleep(request_delay) calls (line 314)
  batch_status,     \* process_batch: the counts each batch reports (line 324)
  all_results,      \* validate_routes: all_results
  overall_success,  \* validate_routes: overall_success
  overall_errors,   \* validate_routes: overall_errors
  overall_retries,  \* validate_routes: overall_retries
  results_df,       \* validate_routes: first returned value
  validation_stats, \* validate_routes: second returned value
  cooldowns,        \* validate_routes: time.sleep(2) calls made (line 402)
  concat_raises,    \* environment: the try body of lines 408-424 raises
  arg,              \* a direct call of one function: its argument
  ret               \* a direct call of one function: <<>> or <<result>>

inputs == <<df, batch_size, max_workers, concat_raises, arg>>
workers == <<task, http_log>>
batch_locals ==
  <<yielded, results, success_count, error_count, retry_count, throttles>>
run_locals ==
  <<batch_status, all_results, overall_success, overall_errors,
    overall_retries, cooldowns>>
returned == <<results_df, validation_stats, ret>>
vars == <<inputs, pc, i, workers, batch_locals, run_locals, returned>>

\* lines 345-346
total_rows == Len(df)

\* variant: the division rounds down
total_batches_floor == total_rows \div batch_size

\* line 346
total_batches == (total_rows + batch_size - 1) \div batch_size

Min(a, b) == IF a < b THEN a ELSE b

\* lines 377-379: df.iloc[start_idx:end_idx]
start_idx(b) == b * batch_size
end_idx(b) == Min(start_idx(b) + batch_size, total_rows)
batch_df(b) == SubSeq(df, start_idx(b) + 1, end_idx(b))

\* the state in which validate_routes is called
Called ==
  /\ pc = "start"
  /\ i = 0
  /\ task = <<>>
  /\ http_log = <<>>
  /\ yielded = {}
  /\ results = <<>>
  /\ success_count = 0
  /\ error_count = 0
  /\ retry_count = 0
  /\ throttles = 0
  /\ batch_status = <<>>
  /\ all_results = <<>>
  /\ overall_success = 0
  /\ overall_errors = 0
  /\ overall_retries = 0
  /\ results_df = NoneList
  /\ validation_stats = <<>>
  /\ cooldowns = 0
  /\ ret = <<>>

\* no function is called on its own, and pd.concat works
NoDirectCall == arg = <<>> /\ concat_raises = FALSE

\* a run over any table of up to MaxRows rows
Init ==
  /\ \E n \in 0..MaxRows, cols \in ColumnSets :
       \E t \in [1..n -> RunRowPool] :
         df = [k \in 1..n |-> Project(t[k], cols)]
  /\ batch_size \in 1..MaxBatchSize
  /\ max_workers \in 1..MaxWorkers
  /\ NoDirectCall
  /\ Called

\* a run over one row: a single process_route call
InitRoute ==
  /\ \E row \in RowPool, cols \in ColumnSets : df = <<Project(row, cols)>>
  /\ batch_size = 1
  /\ max_workers = 1
  /\ NoDirectCall
  /\ Called

\* --------------------------------------------------------- worker threads
Queued == [pc |-> "queued", retry_count |-> 0, rec |-> <<>>]
Running(k) == task[k].pc \in {"requesting", "backoff"}
Finished(k) == task[k].pc \in {"returned", "raised"}

\* the row future k was submitted with (line 289)
RowOf(k) == batch_df(i)[k]

\* the task state a step of process_route leads to
After(step) ==
  [pc |-> CASE step.kind = "return" -> "returned"
            [] step.kind = "raise" -> "raised"
            [] OTHER -> "requesting",
   retry_count |-> step.retry_count,
   rec |-> step.rec]

\* variant: one thread per submitted call
WorkerFree_unbounded == TRUE

\* ThreadPoolExecutor(max_workers): a free worker takes the oldest queued call
WorkerFree == Cardinality({k \in DOMAIN task : Running(k)}) < max_workers

\* A worker takes future k off the queue and runs process_route up to the
\* first request (lines 145-171).
TakeTask(k) ==
  /\ pc \in {"collect", "throttle"}
  /\ task[k].pc = "queued"
  /\ \A j \in 1..(k - 1) : task[j].pc # "queued"
  /\ WorkerFree
  /\ task' = [task EXCEPT ![k] = After(Building(RowOf(k)))]
  /\ UNCHANGED <<inputs, pc, i, http_log, batch_locals, run_locals, returned>>

\* One pass through the loop body of process_route (lines 173-253): the GET
\* and what follows it, up to a return or to the backoff sleep.
RequestStep(k, http) ==
  /\ task[k].pc = "requesting"
  /\ LET step == Attempt(RowOf(k), task[k].retry_count, http) IN
     task' = [task EXCEPT ![k] =
                IF step.kind = "continue"
                  THEN [pc |-> "backoff", retry_count |-> step.retry_count,
                        rec |-> <<>>]
                  ELSE After(step)]
  /\ http_log' = [http_log EXCEPT ![k] = Append(@, http)]
  /\ UNCHANGED <<inputs, pc, i, batch_locals, run_locals, results_df,
                 validation_stats>>

\* the pass, the length of the backoff sleep left out
Request(k, http) == RequestStep(k, http) /\ UNCHANGED ret

\* variant: the value of the "Base Delay" slider is handed to process_route
submitted_base_delay_slider == arg.base_delay

\* lines 130, 288-290: process_batch submits process_route(row, api_settings,
\* api_profile), so base_delay keeps the default of the signature
submitted_base_delay == base_delay

\* the pass, with the sleeps of the route logged in ret: u is the draw of
\* random.uniform(-jitter, jitter), in thousandths
RequestTimed(k, http, u) ==
  /\ RequestStep(k, http)
  /\ LET step == Attempt(RowOf(k), task[k].retry_count, http) IN
     ret' = IF step.kind = "continue"
              THEN Append(ret, add_retry_delay(step.retry_count,
                                   submitted_base_delay, jitter, u))
              ELSE ret

\* variant: the worker adds its retry to the batch's retry counter
BackoffEnd_counts(k) ==
  /\ task[k].pc = "backoff"
  /\ task' = [task EXCEPT ![k].pc = "requesting"]
  /\ retry_count' = retry_count + 1
  /\ UNCHANGED <<inputs, pc, i, http_log, yielded, results, success_count,
                 error_count, throttles, run_locals, returned>>

\* time.sleep(actual_delay) of add_retry_delay ends; `continue` (line 226)
BackoffEnd(k) ==
  /\ task[k].pc = "backoff"
  /\ task' = [task EXCEPT ![k].pc = "requesting"]
  /\ UNCHANGED <<inputs, pc, i, http_log, batch_locals, run_locals, returned>>

\* ------------------------------------------------------- aggregating thread
\* batch_results[batch_results['status'] == 'success']
SuccessRows(table) == {k \in 1..Len(table) : table[k].rec.status = Success}

\* line 386
success_in_batch(batch_results) == Cardinality(SuccessRows(batch_results))
\* variant: every row of the batch is counted as an error
errors_in_batch_all(batch_results) == Len(batch_results)

\* line 387
errors_in_batch(batch_results) ==
  Len(batch_results) - success_in_batch(batch_results)
\* line 388: batch_results['retries'].sum()
RECURSIVE retries_in_batch(_)
retries_in_batch(batch_results) ==
  IF batch_results = <<>> THEN 0
  ELSE batch_results[1].rec.retries + retries_in_batch(Tail(batch_results))

\* pd.concat(all_results, ignore_index=True)
RECURSIVE Concat(_)
Concat(tables) ==
  IF tables = <<>> THEN <<>> ELSE tables[1] \o Concat(Tail(tables))

\* lines 410-424: the combined table and the statistics
Stats(succ, errs, retr) ==
  [total_routes |-> total_rows,
   successful_routes |-> succ,
   failed_routes |-> errs,
   success_rate |-> [num |-> succ * 100, den |-> total_rows],
   total_retries |-> retr,
   avg_retries |-> [num |-> retr, den |-> total_rows]]

\* variant: the statistics are computed whether or not a batch was processed,
\* and outside the try: the division by total_rows = 0 is not caught
Finish_unguarded(all, succ, errs, retr) ==
  /\ ret' = ret
  /\ IF total_rows = 0
       THEN /\ pc' = "raised"
            /\ UNCHANGED <<results_df, validation_stats>>
       ELSE /\ pc' = "done"
            /\ IF concat_raises
                 THEN /\ results_df' = SomeList(all[Len(all)])
                      /\ validation_stats' = <<>>
                 ELSE /\ results_df' = SomeList(Concat(all))
                      /\ validation_stats' = Stats(succ, errs, retr)

\* variant: no except clause around the aggregation
Finish_reraise(all, succ, errs, retr) ==
  /\ ret' = ret
  /\ IF all # <<>>
       THEN IF concat_raises
              THEN /\ pc' = "raised"
                   /\ UNCHANGED <<results_df, validation_stats>>
              ELSE /\ pc' = "done"
                   /\ results_df' = SomeList(Concat(all))
                   /\ validation_stats' = Stats(succ, errs, retr)
       ELSE /\ pc' = "done"
            /\ results_df' = NoneList
            /\ validation_stats' = <<>>

\* lines 404-431, after the loop over the batches
Finish(all, succ, errs, retr) ==
  /\ ret' = ret
  /\ pc' = "done"
  /\ IF all # <<>>
       THEN IF concat_raises
              THEN \* lines 425-428: all_results[-1], {}
                   /\ results_df' = SomeList(all[Len(all)])
                   /\ validation_stats' = <<>>
              ELSE /\ results_df' = SomeList(Concat(all))
                   /\ validation_stats' = Stats(succ, errs, retr)
       ELSE \* lines 429-431
            /\ results_df' = NoneList
            /\ validation_stats' = <<>>

\* lines 287-290: process_batch(b) submits every row of the batch
SubmitBatch(b) ==
  /\ i' = b
  /\ pc' = "collect"
  /\ task' = [k \in 1..Len(batch_df(b)) |-> Queued]
  /\ http_log' = [k \in 1..Len(batch_df(b)) |-> <<>>]
  /\ yielded' = {}
  /\ results' = <<>>
  /\ success_count' = 0
  /\ error_count' = 0
  /\ retry_count' = 0
  /\ throttles' = 0

\* lines 345-375: validate_routes is called
Start ==
  /\ pc = "start"
  /\ IF total_batches > 0
       THEN /\ SubmitBatch(0)
            /\ UNCHANGED <<run_locals, returned>>
       ELSE /\ Finish(all_results, overall_success, overall_errors,
                      overall_retries)
            /\ UNCHANGED <<i, workers, batch_locals, run_locals>>
  /\ UNCHANGED inputs

\* variant: the pause is also made after the last batch
MoreBatches_always(b) == b < total_batches

\* line 401: if i < total_batches - 1
MoreBatches(b) == b < total_batches - 1

\* lines 319-402: the loop over the futures is over; process_batch returns
\* pd.DataFrame(res) and validate_routes books the batch.
BatchReturns(res, succ_n, err_n, retr_n) ==
  LET batch_results == res
      all == Append(all_results, batch_results)
      succ == overall_success + success_in_batch(batch_results)
      errs == overall_errors + errors_in_batch(batch_results)
      retr == overall_retries + retries_in_batch(batch_results)
  IN
  /\ batch_status' = Append(batch_status,
                            [success |-> succ_n, errors |-> err_n,
                             retries |-> retr_n])
  /\ all_results' = all
  /\ IF batch_results = <<>>
       THEN \* an empty frame has no 'status' column: KeyError at line 386
            /\ pc' = "raised"
            /\ UNCHANGED <<overall_success, overall_errors, overall_retries,
                           cooldowns, returned>>
       ELSE /\ overall_success' = succ
            /\ overall_errors' = errs
            /\ overall_retries' = retr
            /\ IF MoreBatches(i)
                 THEN /\ pc' = "cooldown"
                      /\ cooldowns' = cooldowns + 1
                      /\ UNCHANGED returned
                 ELSE /\ Finish(all, succ, errs, retr)
                      /\ UNCHANGED cooldowns

\* lines 293-314: as_completed yields future k, whose call returned a record
CollectResult(k) ==
  /\ pc = "collect"
  /\ k \notin yielded
  /\ task[k].pc = "returned"
  /\ LET result == task[k].rec[1] IN
     /\ results' = Append(results, [src |-> start_idx(i) + k, rec |-> result])
     /\ IF result.status = Success
          THEN /\ success_count' = success_count + 1
               /\ error_count' = error_count
          ELSE /\ success_count' = success_count
               /\ error_count' = error_count + 1
     /\ retry_count' = retry_count + result.retries
  /\ yielded' = yielded \cup {k}
  /\ throttles' = throttles + 1
  /\ pc' = "throttle"
  /\ UNCHANGED <<inputs, i, workers, run_locals, returned>>

\* lines 293-295, 315-317: as_completed yields future k, whose call raised
CollectException(k) ==
  /\ pc = "collect"
  /\ k \notin yielded
  /\ task[k].pc = "raised"
  /\ error_count' = error_count + 1
  /\ yielded' = yielded \cup {k}
  /\ UNCHANGED <<results, success_count, retry_count, throttles>>
  /\ IF yielded' = DOMAIN task
       THEN BatchReturns(results, success_count, error_count + 1, retry_count)
       ELSE UNCHANGED <<pc, run_locals, returned>>
  /\ UNCHANGED <<inputs, i, workers>>

\* variant: process_batch returns from inside the loop over the futures
ThrottleEnd_early ==
  /\ pc = "throttle"
  /\ BatchReturns(results, success_count, error_count, retry_count)
  /\ UNCHANGED <<inputs, i, workers, batch_locals>>

\* line 314: time.sleep(request_delay) ends
ThrottleEnd ==
  /\ pc = "throttle"
  /\ IF yielded = DOMAIN task
       THEN BatchReturns(results, success_count, error_count, retry_count)
       ELSE pc' = "collect" /\ UNCHANGED <<run_locals, returned>>
  /\ UNCHANGED <<inputs, i, workers, batch_locals>>

\* line 402: time.sleep(2) ends and the next batch is processed
CooldownEnd ==
  /\ pc = "cooldown"
  /\ SubmitBatch(i + 1)
  /\ UNCHANGED <<inputs, run_locals, returned>>

Next ==
  \/ Start
  \/ \E k \in DOMAIN task : TakeTask(k)
  \/ \E k \in DOMAIN task, http \in RunHttpOutcomes : Request(k, http)
  \/ \E k \in DOMAIN task : BackoffEnd(k)
  \/ \E k \in DOMAIN task : CollectResult(k)
  \/ \E k \in DOMAIN task : CollectException(k)
  \/ ThrottleEnd
  \/ CooldownEnd

Spec == Init /\ [][Next]_vars

NextRoute ==
  \/ Start
  \/ \E k \in DOMAIN task : TakeTask(k)
  \/ \E k \in DOMAIN task, http \in HttpOutcomes : Request(k, http)
  \/ \E k \in DOMAIN task : BackoffEnd(k)
  \/ \E k \in DOMAIN task : CollectResult(k)
  \/ \E k \in DOMAIN task : CollectException(k)
  \/ ThrottleEnd

SpecRoute == InitRoute /\ [][NextRoute]_vars

\* ======================================================================
\* Properties of one process_route call (checked under SpecRoute)
\* ======================================================================

\* What the HTTP side saw, stated without the code's own classification.
TransportFailure(http) ==
  http.exc # NoExc /\ "RequestException" \in http.exc.bases
OtherFailure(http) ==
  http.exc # NoExc /\ "RequestException" \notin http.exc.bases
Reply(http) == http.exc = NoExc
\* the decoder finds a (lon, lat) pair of numbers in the body
Extractable(http) ==
  /\ Reply(http)
  /\ LET r == get_last_route_coordinate(http.body)
     IN Truthy(r) /\ Len(r.list) = 2 /\ \A j \in 1..2 : r.list[j].t = "float"
\* the decoder finds nothing in the body
Absent(http) == Reply(http) /\ ~Truthy(get_last_route_coordinate(http.body))

AllTransport(log, n) == \A j \in 1..n : TransportFailure(log[j])
Last(log) == log[Len(log)]

\* C2: every column of the input row other than the four coordinates is in
\* the outcome record produced for that row, with its value unchanged, on
\* every terminal path of process_route.
C2_PassthroughPreserved ==
  \A k \in DOMAIN task :
    task[k].pc = "returned" =>
      \A col \in (DOMAIN RowOf(k)) \ CoordColSet :
        /\ col \in DOMAIN task[k].rec[1]
        /\ task[k].rec[1][col] = RowOf(k)[col]

\* C3: when every HTTP request of a route fails with a transport-level
\* error, process_route issues max_retries + 1 requests (max_retries
\* retries), then returns an error status, never "success", with
\* retries = max_retries.
C3_RetryExhaustion ==
  \A k \in DOMAIN task :
    (http_log[k] # <<>> /\ AllTransport(http_log[k], Len(http_log[k]))) =>
      /\ Len(http_log[k]) <= max_retries + 1
      /\ task[k].pc \in {"backoff", "requesting", "returned"}
      /\ task[k].pc = "returned" =>
           /\ Len(http_log[k]) = max_retries + 1
           /\ task[k].rec[1].retries = max_retries
           /\ task[k].rec[1].status # Success
           /\ task[k].rec[1].status.prefix = "error: "
           /\ task[k].rec[1].status.msg = Last(http_log[k]).exc.msg
      /\ task[k].pc # "returned" => Len(http_log[k]) <= max_retries

\* C3 witness: a call returned after max_retries + 1 transport failures
C3_Witness ==
  \E k \in DOMAIN task :
    /\ task[k].pc = "returned"
    /\ Len(http_log[k]) = max_retries + 1
    /\ AllTransport(http_log[k], max_retries + 1)

\* C4: when the first n requests of a route fail with a retryable error,
\* 0 <= n < max_retries, and request n + 1 returns a response from which a
\* last coordinate can be extracted, process_route returns status "success"
\* with retries = n.
C4_RetryThenSuccess ==
  \A k \in DOMAIN task :
    \A n \in 0..(max_retries - 1) :
      ( /\ Len(http_log[k]) = n + 1
        /\ AllTransport(http_log[k], n)
        /\ Extractable(http_log[k][n + 1]) ) =>
          /\ task[k].pc = "returned"
          /\ task[k].rec[1].status = Success
          /\ task[k].rec[1].retries = n

\* C5: process_route returns an outcome record and never raises, for every
\* input row (rows with missing, null, non-numeric or malformed coordinate
\* fields included) and every behaviour of the HTTP call, so no future
\* carries an exception.
C5_NeverRaises ==
  \A k \in DOMAIN task : task[k].pc # "raised"

\* a finite number, or text that spells one
FiniteNumber(v) ==
  \/ v.t = "float" /\ v.s = ""
  \/ v.t = "int"
  \/ v.t = "str" /\ v.s = "7"

\* C6: a request whose four coordinates are not all finite numbers
\* (non-numeric, null, NaN or infinite) never causes an HTTP request;
\* process_route returns for it a status beginning
\* "error: invalid coordinates" with retries = 0.
C6_LocalValidation ==
  \A k \in DOMAIN task :
    ( /\ CoordColSet \subseteq DOMAIN RowOf(k)
      /\ \E col \in CoordColSet : ~FiniteNumber(RowOf(k)[col]) ) =>
        /\ http_log[k] = <<>>
        /\ task[k].pc \in {"queued", "returned"}
        /\ task[k].pc = "returned" =>
             /\ task[k].rec[1].status.prefix = "error: invalid coordinates - "
             /\ task[k].rec[1].retries = 0

\* C7: when a response is received and the decoder yields no coordinate,
\* process_route issues no further request and returns status
\* "error: could not extract last coordinate", whatever budget remains,
\* with retries equal to the transport failures that came before.
C7_DecodeErrorTerminal ==
  \A k \in DOMAIN task :
    \A j \in 1..Len(http_log[k]) :
      Absent(http_log[k][j]) =>
        /\ j = Len(http_log[k])
        /\ AllTransport(http_log[k], j - 1)
        /\ task[k].pc = "returned"
        /\ task[k].rec[1].status =
             Status("error: could not extract last coordinate", "")
        /\ task[k].rec[1].retries = j - 1

\* C7 witness: a decode error after one retry, with budget left
C7_Witness ==
  \E k \in DOMAIN task :
    /\ Len(http_log[k]) = 2
    /\ TransportFailure(http_log[k][1])
    /\ Absent(http_log[k][2])
    /\ task[k].pc = "returned"
    /\ task[k].rec[1].retries < max_retries

RowsFrom(table, r) == {k \in 1..Len(table) : table[k].src = r}

RECURSIVE SumRetries(_)
SumRetries(table) ==
  IF table = <<>> THEN 0 ELSE table[1].rec.retries + SumRetries(Tail(table))
NumSuccess(table) ==
  Cardinality({k \in 1..Len(table) : table[k].rec.status.prefix = "success"})
NumErrors(table) ==
  Cardinality({k \in 1..Len(table) : table[k].rec.status.prefix # "success"})

RECURSIVE SumReported(_, _)
SumReported(reports, field) ==
  IF reports = <<>> THEN 0
  ELSE reports[1][field] + SumReported(Tail(reports), field)

\* C1: for every input table of N >= 1 rows and every batch size,
\* validate_routes returns an outcome table of exactly N rows, one for each
\* input row: none dropped, none processed twice.
C1_BatchCompleteness ==
  (total_rows >= 1 /\ pc \in {"done", "raised"}) =>
    /\ pc = "done"
    /\ ~results_df.none
    /\ Len(results_df.list) = total_rows
    /\ \A r \in 1..total_rows : Cardinality(RowsFrom(results_df.list, r)) = 1

\* What the HTTP side saw of future k: it ran out of retries, or it hit a
\* fatal error.
ExhaustedRoute(k) ==
  /\ Len(http_log[k]) = max_retries + 1
  /\ AllTransport(http_log[k], max_retries + 1)
FatalRoute(k) == http_log[k] # <<>> /\ OtherFailure(Last(http_log[k]))
FailedRoute(k) == ExhaustedRoute(k) \/ FatalRoute(k)

\* the one row of the table that comes from input row r is the record rec
OnlyRow(table, r, rec) ==
  /\ Cardinality(RowsFrom(table, r)) = 1
  /\ \A n \in RowsFrom(table, r) : table[n].rec = rec

C9_State ==
  /\ \A k \in DOMAIN task :
       FailedRoute(k) =>
         LET r == start_idx(i) + k IN
         \* it ends as a record, not as an exception, and aborts nothing
         /\ task[k].pc = "returned"
         /\ task[k].rec[1].status # Success
         /\ pc # "raised"
         \* collected once, as one non-success row
         /\ k \in yielded => OnlyRow(results, r, task[k].rec[1])
         /\ k \notin yielded => RowsFrom(results, r) = {}
         \* when its batch is over every row of the batch was processed
         /\ pc \in {"cooldown", "done"} =>
              /\ \A j \in DOMAIN task : Finished(j) /\ j \in yielded
              /\ OnlyRow(all_results[i + 1], r, task[k].rec[1])
         /\ pc = "done" => OnlyRow(results_df.list, r, task[k].rec[1])
  \* a run that returns a table has processed every batch and kept every
  \* batch's rows
  /\ (pc = "done" /\ total_rows > 0) =>
       /\ Len(all_results) = total_batches
       /\ \A b \in 1..Len(all_results) :
            \A n \in 1..Len(all_results[b]) :
              OnlyRow(results_df.list, all_results[b][n].src,
                      all_results[b][n].rec)

\* the tables of the batches that are over are never changed or dropped
C9_Step ==
  \A b \in 1..Len(all_results) :
    Len(all_results') >= b /\ all_results'[b] = all_results[b]

\* C9: a route that ends in exhausted retries or in a fatal error never
\* aborts its batch or the run: every other row of its batch and every
\* later batch is still processed, and the failed route is exactly one
\* non-success row of the outcome table.
C9_FailureIsolation == [](C9_State) /\ [][C9_Step]_vars

\* C9 witness: the run returned a table holding a failed route of the last
\* batch next to a successful row
C9_Witness ==
  /\ pc = "done"
  /\ \E k \in DOMAIN task : FailedRoute(k)
  /\ Len(results_df.list) >= 2
  /\ NumSuccess(results_df.list) >= 1

\* C10: at the end of every run the success count, the error count and the
\* retry total accumulated while results were collected (per completion in
\* process_batch, per batch in validate_routes) equal the same quantities
\* recomputed from the final outcome table.
C10_IdempotentStats ==
  (pc = "done" /\ ~results_df.none) =>
    /\ overall_success = NumSuccess(results_df.list)
    /\ overall_errors = NumErrors(results_df.list)
    /\ overall_retries = SumRetries(results_df.list)
    /\ SumReported(batch_status, "success") = NumSuccess(results_df.list)
    /\ SumReported(batch_status, "errors") = NumErrors(results_df.list)
    /\ SumReported(batch_status, "retries") = SumRetries(results_df.list)

\* ======================================================================
\* A run of three routes against a server with fixed answers
\* ======================================================================

\* The server's answer to every request of input row r: a body with a
\* geometry for the first row, an empty routes list for the second, a
\* timeout for the third.
ScenarioHttp(r) ==
  CASE r = 1 -> Replied(GeometryBody)
    [] r = 2 -> Replied(EmptyRoutesBody)
    [] OTHER -> Raised(TimeoutExc)

InitScenario ==
  /\ df = <<GoodRow, GoodRow, GoodRow>>
  /\ batch_size \in 1..Len(df)
  /\ max_workers \in 1..Len(df)
  /\ NoDirectCall
  /\ Called

NextScenario ==
  \/ Start
  \/ \E k \in DOMAIN task : TakeTask(k)
  \/ \E k \in DOMAIN task : Request(k, ScenarioHttp(start_idx(i) + k))
  \/ \E k \in DOMAIN task : BackoffEnd(k)
  \/ \E k \in DOMAIN task : CollectResult(k)
  \/ ThrottleEnd
  \/ CooldownEnd

SpecScenario == InitScenario /\ [][NextScenario]_vars

\* the rows of the returned table that come from input row r
ScenarioRows(r) ==
  {j \in 1..Len(results_df.list) : results_df.list[j].src = r}

\* C11: in a run of 3 requests with max_retries = 3 where one response
\* carries a valid geometry, one has an empty routes list and one request
\* times out on each of its 4 attempts, the run does not raise and returns
\* a table of 3 rows, one per request, with statuses success, "error: could
\* not extract last coordinate" and a transport error with retries = 3;
\* the statistics are total 3, success 1, error 2, success rate 1/3.
C11_EndToEnd ==
  /\ pc # "raised"
  /\ pc = "done" =>
       /\ ~results_df.none
       /\ Len(results_df.list) = 3
       /\ \A r \in 1..3 : Cardinality(ScenarioRows(r)) = 1
       /\ \A j \in 1..3 :
            LET rec == results_df.list[j].rec
                r == results_df.list[j].src
            IN /\ r = 1 => rec.status = Status("success", "") /\ rec.retries = 0
               /\ r = 2 =>
                    /\ rec.status =
                         Status("error: could not extract last coordinate", "")
                    /\ rec.retries = 0
               /\ r = 3 =>
                    /\ rec.status = Status("error: ", TimeoutExc.msg)
                    /\ rec.retries = 3
       /\ validation_stats.total_routes = 3
       /\ validation_stats.successful_routes = 1
       /\ validation_stats.failed_routes = 2
       /\ validation_stats.success_rate.num * 3
            = validation_stats.success_rate.den * 100
       /\ validation_stats.total_retries = 3

\* C11 witness: the run has returned, and the third route made 4 requests
\* in a batch of its own
C11_Witness ==
  /\ pc = "done"
  /\ batch_size = 1
  /\ i = 2
  /\ Len(http_log[1]) = 4

\* ======================================================================
\* Properties of the batch loop (checked under Spec)
\* ======================================================================

\* a step that hands routes to the executor
Submits ==
  \E k \in DOMAIN task' :
    task'[k].pc = "queued" /\ (k \notin DOMAIN task \/ task[k].pc # "queued")

\* every route of the current batch is over and its result was collected
BatchOver ==
  /\ \A k \in DOMAIN task : Finished(k)
  /\ yielded = DOMAIN task

C12_State ==
  /\ pc \in {"start", "cooldown", "done", "raised"} => BatchOver
  /\ pc \in {"collect", "throttle"} => Len(all_results) = i
  /\ \A k \in DOMAIN task :
       task[k].pc # "queued" => pc # "start" /\ start_idx(i) + k <= total_rows

C12_Step ==
  /\ Submits =>
       /\ BatchOver
       /\ i' = IF pc = "start" THEN 0 ELSE i + 1
       /\ Len(all_results) = i'
       /\ \A k \in DOMAIN task' : task'[k].pc = "queued"
  /\ i' # i => Submits

\* C12: batches never overlap and run in increasing index order: routes
\* are submitted only when every route of the batch before has reached a
\* terminal outcome and was collected, the batch submitted is the next
\* index, and between batches no request is in flight.
C12_BatchesNeverOverlap == [](C12_State) /\ [][C12_Step]_vars

\* C12 witness: a route of the second batch is requesting, the first batch
\* being booked
C12_Witness ==
  /\ i = 1
  /\ Len(all_results) = 1
  /\ \E k \in DOMAIN task : task[k].pc = "requesting"

\* the routes in the Requesting state or in a retry backoff wait
InFlight == {k \in DOMAIN task : task[k].pc \in {"requesting", "backoff"}}

\* C13: in every reachable state of a run at most max_workers routes are
\* being validated at once (requesting or waiting in a retry backoff),
\* though all rows of the batch are submitted up front.
C13_BoundedConcurrency == Cardinality(InFlight) <= max_workers

\* C13 witness: every worker is busy, one of them in a backoff wait, and a
\* submitted route waits in the queue
C13_Witness ==
  /\ Cardinality(InFlight) = max_workers
  /\ \E k \in DOMAIN task : task[k].pc = "backoff"
  /\ \E k \in DOMAIN task : task[k].pc = "queued"

\* ======================================================================
\* Runs over rows that are decided without a request
\* ======================================================================

\* a row rejected by the conversion, and one whose conversion raises
LocalRowPool == {TextRow, HugeIntRow}

\* a run over any table of up to MaxLocalRows such rows, in which the
\* aggregation of lines 408-424 may raise
InitLocal ==
  /\ \E n \in 0..MaxLocalRows : df \in [1..n -> LocalRowPool]
  /\ batch_size \in 1..MaxLocalBatch
  /\ max_workers \in 1..MaxWorkers
  /\ concat_raises \in BOOLEAN
  /\ arg = <<>>
  /\ Called

NextLocal ==
  \/ Start
  \/ \E k \in DOMAIN task : TakeTask(k)
  \/ \E k \in DOMAIN task : CollectResult(k)
  \/ \E k \in DOMAIN task : CollectException(k)
  \/ ThrottleEnd
  \/ CooldownEnd

SpecLocal == InitLocal /\ [][NextLocal]_vars

\* the input rows lo+1 .. hi (1-based), in order
RowsOfRange(lo, hi) == [k \in 1..(hi - lo) |-> df[lo + k]]

\* C14: for N rows and batch size B >= 1 validate_routes forms ceil(N/B)
\* batches; batch b (0-based) is the consecutive input rows b*B ..
\* min((b+1)*B, N)-1, so every batch but the last has B rows, the last has
\* between 1 and B rows, and every input row belongs to exactly one batch.
C14_Partitioning ==
  LET N == Len(df)
      B == batch_size
      T == total_batches
      lo(b) == b * B
      hi(b) == IF (b + 1) * B < N THEN (b + 1) * B ELSE N
  IN /\ T * B >= N /\ (T - 1) * B < N
     /\ \A b \in 0..(T - 1) : batch_df(b) = RowsOfRange(lo(b), hi(b))
     /\ \A b \in 0..(T - 2) : Len(batch_df(b)) = B
     /\ T >= 1 => Len(batch_df(T - 1)) \in 1..B
     /\ \A r \in 1..N :
          Cardinality({b \in 0..(T - 1) :
                         \E k \in 1..Len(batch_df(b)) : start_idx(b) + k = r})
            = 1
     /\ pc \in {"collect", "throttle", "cooldown"} =>
          /\ i \in 0..(T - 1)
          /\ Len(task) = hi(i) - lo(i)
          /\ \A k \in DOMAIN task : RowOf(k) = df[lo(i) + k]
     /\ pc = "done" => Len(all_results) = T

\* C14 witness: the routes of a last batch that is shorter than the full
\* batches before it are submitted
C14_Witness ==
  /\ pc = "collect"
  /\ i >= 1
  /\ i = total_batches - 1
  /\ Len(task) < batch_size
  /\ Len(task) >= 2

C15_State ==
  /\ pc = "cooldown" =>
       /\ i < total_batches - 1
       /\ Len(all_results) = i + 1
       /\ cooldowns = i + 1
  /\ pc \in {"collect", "throttle", "raised"} => cooldowns = i
  /\ pc = "start" => cooldowns = 0
  /\ (pc = "done" /\ total_batches >= 1) =>
       /\ i = total_batches - 1
       /\ cooldowns = total_batches - 1

C15_Step ==
  /\ cooldowns' # cooldowns =>
       /\ cooldowns' = cooldowns + 1
       /\ pc \in {"collect", "throttle"} /\ BatchOver'
       /\ pc' = "cooldown"
  /\ i' # i => pc = "cooldown" /\ i' = i + 1
  /\ (pc' = "done" /\ pc # "done") => pc # "cooldown"

\* C15: validate_routes pauses (2 seconds) after batch i is complete and
\* before batch i+1 starts, for every batch that is not the last, and makes
\* no pause after the last batch: a run that processes its T >= 1 batches
\* makes exactly T-1 pauses.
C15_InterBatchCooldown == [](C15_State) /\ [][C15_Step]_vars

\* C15 witness: a run of three or more batches has returned
C15_Witness ==
  /\ pc = "done"
  /\ total_batches >= 3
  /\ cooldowns = total_batches - 1

\* the table of the last batch booked
LastBatch == all_results[Len(all_results)]

\* C16: when the run reaches the aggregation and concatenating the batch
\* tables fails, validate_routes does not raise: it returns the table of
\* the last completed batch only, with an empty stats mapping.
C16_AggregationDegradation ==
  ( /\ concat_raises
    /\ pc \in {"done", "raised"}
    /\ all_results # <<>>
    /\ LastBatch # <<>> ) =>
      /\ pc = "done"
      /\ results_df = SomeList(LastBatch)
      /\ validation_stats = <<>>

\* C16 witness: the aggregation failed after two or more batches, and the
\* table returned is shorter than the concatenation
C16_Witness ==
  /\ concat_raises
  /\ pc = "done"
  /\ Len(all_results) >= 2
  /\ results_df = SomeList(LastBatch)
  /\ Len(results_df.list) < Len(Concat(all_results))

\* ======================================================================
\* get_last_route_coordinate called on its own
\* ======================================================================

\* Encoded paths with the (lat, lon) points they stand for in the
\* polyline format at precision 6 (micro-degrees); ok is FALSE for a text
\* that ends inside a number.
\* "AC", "ACCE", "@@", "gEnKbBg^", "", "_", "A", "AC_"
EncodedPaths ==
  {[text |-> <<65, 67>>, ok |-> TRUE, path |-> << <<1, 2>> >>],
   [text |-> <<65, 67, 67, 69>>, ok |-> TRUE, path |-> << <<1, 2>>, <<3, 5>> >>],
   [text |-> <<64, 64>>, ok |-> TRUE, path |-> << <<-1, -1>> >>],
   [text |-> <<103, 69, 110, 75, 98, 66, 103, 94>>, ok |-> TRUE,
    path |-> << <<100, -200>>, <<50, 300>> >>],
   [text |-> <<>>, ok |-> TRUE, path |-> <<>>],
   [text |-> <<95>>, ok |-> FALSE, path |-> <<>>],
   [text |-> <<65>>, ok |-> FALSE, path |-> <<>>],
   [text |-> <<65, 67, 95>>, ok |-> FALSE, path |-> <<>>]}

\* What a step may carry under 'maneuver': nothing usable, a (lon, lat)
\* location, or a location that is no (lon, lat) pair.
Maneuvers ==
  {[bearing_after |-> Float(0)],
   [location |-> <<Float(5), Float(6)>>],
   [location |-> <<Float(5), Float(6), Float(7)>>],
   [location |-> <<>>]}

\* a step with the given optional fields; g and m are sets of at most one
\* element
StepOf(g, m) ==
  [f \in {"name"} \cup {"geometry" : x \in g} \cup {"maneuver" : x \in m} |->
     IF f = "geometry" THEN (CHOOSE x \in g : TRUE).text
     ELSE IF f = "maneuver" THEN (CHOOSE x \in m : TRUE)
     ELSE Str("Main St")]

LastSteps ==
  {StepOf(g, m) : g \in {{}} \cup {{e} : e \in EncodedPaths},
                  m \in {{}} \cup {{x} : x \in Maneuvers}}

\* a step in front of the last one
DepartStep ==
  [name |-> Str("Depot Rd"), geometry |-> <<64, 64>>,
   maneuver |-> [location |-> <<Float(8), Float(9)>>]]

BodyOf(steps) == [code |-> Str("Ok"), routes |-> << [legs |-> << [steps |-> steps] >>] >>]

\* payloads in which the walk to the last step ends early
BrokenBodies ==
  {[code |-> Str("NoRoute")],
   [code |-> Str("Ok"), routes |-> <<>>],
   [code |-> Str("Ok"), routes |-> << [weight |-> Float(0)] >>],
   [code |-> Str("Ok"), routes |-> << [legs |-> <<>>] >>],
   [code |-> Str("Ok"), routes |-> << [legs |-> << [summary |-> Str("")] >>] >>],
   BodyOf(<<>>)}

Payloads ==
  BrokenBodies
    \cup {BodyOf(<<s>>) : s \in LastSteps}
    \cup {BodyOf(<<DepartStep, s>>) : s \in LastSteps}

InitDecoder ==
  /\ df = <<>>
  /\ batch_size = 1
  /\ max_workers = 1
  /\ concat_raises = FALSE
  /\ arg \in Payloads
  /\ Called

\* get_last_route_coordinate(arg) is called and returns
CallDecoder ==
  /\ ret = <<>>
  /\ ret' = <<get_last_route_coordinate(arg)>>
  /\ UNCHANGED <<inputs, pc, i, workers, batch_locals, run_locals,
                 results_df, validation_stats>>

NextDecoder == CallDecoder

SpecDecoder == InitDecoder /\ [][NextDecoder]_vars

\* the walk routes[0].legs[0].steps[-1] of a payload, stated on its own
Walkable(p) ==
  /\ "routes" \in DOMAIN p /\ p.routes # <<>>
  /\ "legs" \in DOMAIN p.routes[1] /\ p.routes[1].legs # <<>>
  /\ "steps" \in DOMAIN p.routes[1].legs[1]
  /\ p.routes[1].legs[1].steps # <<>>
FinalStep(p) ==
  p.routes[1].legs[1].steps[Len(p.routes[1].legs[1].steps)]

\* the step's geometry is one of the encoded paths, with this record
PathOf(step) == CHOOSE e \in EncodedPaths : e.text = step.geometry
\* the step has a geometry that stands for at least one point
HasPath(step) ==
  "geometry" \in DOMAIN step /\ PathOf(step).ok /\ PathOf(step).path # <<>>
\* [lon, lat] of the last point of the step's path
LastPoint(step) ==
  LET path == PathOf(step).path
  IN <<Float(path[Len(path)][2]), Float(path[Len(path)][1])>>
HasLocation(step) ==
  "maneuver" \in DOMAIN step /\ "location" \in DOMAIN step.maneuver

\* C17: for the last step of routes[0].legs[0]: when the step has both a
\* geometry (an encoded path of at least one point) and a maneuver
\* location, get_last_route_coordinate returns the last coordinate of the
\* decoded geometry; when it has only a maneuver location it returns that
\* location; when it has neither it returns None.
C17_DecoderPriority ==
  (ret # <<>> /\ Walkable(arg)) =>
    LET step == FinalStep(arg) IN
    /\ (HasPath(step) /\ HasLocation(step)) =>
         ret[1] = SomeList(LastPoint(step))
    /\ ("geometry" \notin DOMAIN step /\ HasLocation(step)) =>
         ret[1] = SomeList(step.maneuver.location)
    /\ ("geometry" \notin DOMAIN step /\ ~HasLocation(step)) =>
         ret[1] = NoneList

\* C17 witness: the call returned for a last step that has a two-point
\* geometry and a maneuver location, after another step
C17_Witness ==
  /\ ret # <<>>
  /\ Walkable(arg)
  /\ Len(arg.routes[1].legs[1].steps) = 2
  /\ HasPath(FinalStep(arg))
  /\ Len(PathOf(FinalStep(arg)).path) = 2
  /\ HasLocation(FinalStep(arg))
  /\ ret[1] = SomeList(LastPoint(FinalStep(arg)))

\* a (lon, lat) pair of numbers
IsLonLat(l) == Len(l) = 2 /\ l[1].t = "float" /\ l[2].t = "float"

\* The payload is malformed: the walk to the last step ends early, or the
\* step's geometry is no encoded path, or the step has no point in its
\* geometry and its maneuver has no (lon, lat) location.
Malformed(p) ==
  \/ ~Walkable(p)
  \/ "geometry" \in DOMAIN FinalStep(p) /\ ~PathOf(FinalStep(p)).ok
  \/ /\ ~HasPath(FinalStep(p))
     /\ ~(HasLocation(FinalStep(p))
            /\ IsLonLat(FinalStep(p).maneuver.location))

\* C18: for a payload with no routes key, an empty routes list, a route
\* with no legs or a leg with no steps, and for every other malformed
\* payload, get_last_route_coordinate returns absent (None, or a value
\* its caller takes for absent) and does not raise.
C18_AbsentNeverRaises ==
  (ret # <<>> /\ Malformed(arg)) => ~Truthy(ret[1])

\* ======================================================================
\* build_osrm_url called on its own
\* ======================================================================

\* an upper bound on the entries of CUSTOM_PARAMS
MaxCustomParams == 2

PyInt(n) == [t |-> "int", n |-> n, s |-> ""]
Bool(b) == [t |-> "bool", n |-> IF b THEN 1 ELSE 0, s |-> ""]

\* bool(v)
PyTruthy(v) ==
  CASE v.t = "str" -> v.s # ""
    [] v.t = "None" -> FALSE
    [] OTHER -> v.n # 0 \/ v.s # ""

\* str(v), for the values that go into a query
PyStr(v) ==
  CASE v.t = "str" -> v.s
    [] v.t = "None" -> "None"
    [] v.t = "bool" -> IF v.n = 1 THEN "True" ELSE "False"
    [] OTHER -> ToString(v.n)

\* urllib.parse.quote_plus on the texts of the model: letters, digits and
\* "_.-~" stay, a blank becomes "+", any other character %XX
QuotePlus(s) ==
  CASE s = "unrestricted;unrestricted" -> "unrestricted%3Bunrestricted"
    [] s = "2026-01-01T08:00:00+00:00" -> "2026-01-01T08%3A00%3A00%2B00%3A00"
    [] s = "2026-02-02T09:30:00+00:00" -> "2026-02-02T09%3A30%3A00%2B00%3A00"
    [] s = "2026-03-03T10:00:00+00:00" -> "2026-03-03T10%3A00%3A00%2B00%3A00"
    [] s = "2026-03-03T10:00:01+00:00" -> "2026-03-03T10%3A00%3A01%2B00%3A00"
    [] s = "toll road" -> "toll+road"
    [] OTHER -> s

\* A dict in insertion order: a sequence of entries with distinct names.
Entry(k, v) == [name |-> k, value |-> v]
HasKey(d, k) == \E j \in 1..Len(d) : d[j].name = k
Lookup(d, k) == d[CHOOSE j \in 1..Len(d) : d[j].name = k].value
\* variant: d.setdefault(k, v), a key already present keeps its value
SetItem_setdefault(d, k, v) ==
  IF HasKey(d, k) THEN d ELSE Append(d, Entry(k, v))

\* d[k] = v
SetItem(d, k, v) ==
  IF HasKey(d, k)
    THEN [j \in 1..Len(d) |-> IF d[j].name = k THEN Entry(k, v) ELSE d[j]]
    ELSE Append(d, Entry(k, v))

\* api_settings.get(key, default)
Setting(api_settings, key, default) ==
  IF key \in DOMAIN api_settings THEN api_settings[key] ELSE default

\* lines 109-116
StartTime(api_settings, now) ==
  IF "START_TIME" \in DOMAIN api_settings
    THEN api_settings.START_TIME
    ELSE IF HasKey(Setting(api_settings, "CUSTOM_PARAMS", <<>>), "start_time")
           THEN Lookup(api_settings.CUSTOM_PARAMS, "start_time")
           ELSE Str(now)

\* variant: start_time is merged like any other custom parameter
CustomAllowed_start_time(param_name, param_value) ==
  param_name # "" /\ PyTruthy(param_value)

\* line 121
CustomAllowed(param_name, param_value) ==
  param_name # "" /\ PyTruthy(param_value) /\ param_name # "start_time"

\* lines 120-122
RECURSIVE AddCustom(_, _)
AddCustom(params, custom_params) ==
  IF custom_params = <<>>
    THEN params
    ELSE AddCustom(IF CustomAllowed(custom_params[1].name,
                                    custom_params[1].value)
                     THEN SetItem(params, custom_params[1].name,
                                  custom_params[1].value)
                     ELSE params,
                   Tail(custom_params))

\* urlencode(params): name=value pairs in the order of the dict
urlencode(params) ==
  [j \in 1..Len(params) |->
     Entry(QuotePlus(params[j].name), QuotePlus(PyStr(params[j].value)))]

\* The URL, kept in its parts: base_url, profile and the two coordinate
\* pairs of the path, and the pairs of the query string.
build_osrm_url(origin_lon, origin_lat, dest_lon, dest_lat, api_settings, profile_value, now) ==
  LET params0 ==
        <<Entry("access_token", Setting(api_settings, "ACCESS_TOKEN", Str(""))),
          Entry("overview", Setting(api_settings, "OVERVIEW", Str("false"))),
          Entry("steps", Setting(api_settings, "STEPS", Str("true"))),
          Entry("geometries",
                Setting(api_settings, "GEOMETRIES", Str("polyline6"))),
          Entry("approaches",
                Setting(api_settings, "APPROACHES",
                        Str("unrestricted;unrestricted")))>>
      params1 == SetItem(params0, "start_time", StartTime(api_settings, now))
      params == AddCustom(params1,
                          Setting(api_settings, "CUSTOM_PARAMS", <<>>))
  IN [base_url |-> Setting(api_settings, "BASE_URL", Str("")),
      profile |-> profile_value,
      coordinates |-> << <<origin_lon, origin_lat>>, <<dest_lon, dest_lat>> >>,
      query |-> urlencode(params)]

\* Entries a CUSTOM_PARAMS mapping may hold.
CustomEntries ==
  {Entry("start_time", Str("2026-02-02T09:30:00+00:00")),
   Entry("alternatives", Str("3")),
   Entry("alternatives", PyInt(0)),
   Entry("exclude", Str("toll road")),
   Entry("exclude", Str("")),
   Entry("continue_straight", Bool(FALSE)),
   Entry("continue_straight", Bool(TRUE)),
   Entry("overview", Str("full")),
   Entry("overview", Str("")),
   Entry("steps", Str("false")),
   Entry("access_token", Str("other"))}

\* the mappings of up to MaxCustomParams entries
CustomParamSets ==
  {d \in UNION {[1..n -> CustomEntries] : n \in 0..MaxCustomParams} :
     \A j, k \in 1..Len(d) : j # k => d[j].name # d[k].name}

\* DEFAULT_OSRM_API_SETTINGS has no START_TIME; the settings saved by
\* setup_osrm_parameters have one.
BaseSettings ==
  [BASE_URL |-> Str("https://router.example/route/v1/"),
   ACCESS_TOKEN |-> Str("tok"),
   OVERVIEW |-> Str("false"),
   STEPS |-> Str("true"),
   GEOMETRIES |-> Str("polyline6"),
   APPROACHES |-> Str("unrestricted;unrestricted")]

WithOptional(top, custom) ==
  [k \in DOMAIN BaseSettings \cup {"START_TIME" : x \in top}
                             \cup {"CUSTOM_PARAMS" : x \in custom} |->
     IF k = "START_TIME" THEN (CHOOSE x \in top : TRUE)
     ELSE IF k = "CUSTOM_PARAMS" THEN (CHOOSE x \in custom : TRUE)
     ELSE BaseSettings[k]]

ApiSettings ==
  {WithOptional(top, custom) :
     top \in {{}, {Str("2026-01-01T08:00:00+00:00")}},
     custom \in {{}} \cup {{d} : d \in CustomParamSets}}

\* datetime.now().strftime(...) at the call
Clock == {"2026-03-03T10:00:00+00:00", "2026-03-03T10:00:01+00:00"}

InitUrl ==
  /\ df = <<>>
  /\ batch_size = 1
  /\ max_workers = 1
  /\ concat_raises = FALSE
  /\ arg \in [api_settings : ApiSettings, now : Clock]
  /\ Called

\* build_osrm_url is called for the route of GoodRow and returns
CallBuildUrl ==
  /\ ret = <<>>
  /\ ret' = <<build_osrm_url(GoodRow.origin_lon, GoodRow.origin_lat,
                             GoodRow.dest_lon, GoodRow.dest_lat,
                             arg.api_settings, Str("driving"), arg.now)>>
  /\ UNCHANGED <<inputs, pc, i, workers, batch_locals, run_locals,
                 results_df, validation_stats>>

NextUrl == CallBuildUrl

SpecUrl == InitUrl /\ [][NextUrl]_vars

\* urllib.parse.unquote_plus on the texts of the model
UnquotePlus(s) ==
  CASE s = "unrestricted%3Bunrestricted" -> "unrestricted;unrestricted"
    [] s = "2026-01-01T08%3A00%3A00%2B00%3A00" -> "2026-01-01T08:00:00+00:00"
    [] s = "2026-02-02T09%3A30%3A00%2B00%3A00" -> "2026-02-02T09:30:00+00:00"
    [] s = "2026-03-03T10%3A00%3A00%2B00%3A00" -> "2026-03-03T10:00:00+00:00"
    [] s = "2026-03-03T10%3A00%3A01%2B00%3A00" -> "2026-03-03T10:00:01+00:00"
    [] s = "toll+road" -> "toll road"
    [] OTHER -> s

\* the values the query of the built URL carries under a name
QueryValues(name) ==
  {j \in 1..Len(ret[1].query) : UnquotePlus(ret[1].query[j].name) = name}
CustomOf(settings) ==
  IF "CUSTOM_PARAMS" \in DOMAIN settings THEN settings.CUSTOM_PARAMS ELSE <<>>
CustomStartTimes(settings) ==
  {j \in 1..Len(CustomOf(settings)) : CustomOf(settings)[j].name = "start_time"}

\* C19: the URL built by build_osrm_url carries exactly one start_time
\* parameter; its value is the top-level START_TIME setting when one is
\* set, otherwise custom_params["start_time"] when present, otherwise the
\* call-time timestamp.
C19_StartTimePrecedence ==
  ret # <<>> =>
    LET settings == arg.api_settings
        expected ==
          IF "START_TIME" \in DOMAIN settings
            THEN settings.START_TIME.s
            ELSE IF CustomStartTimes(settings) # {}
                   THEN CustomOf(settings)
                          [CHOOSE j \in CustomStartTimes(settings) : TRUE]
                          .value.s
                   ELSE arg.now
    IN /\ Cardinality(QueryValues("start_time")) = 1
       /\ \A j \in QueryValues("start_time") :
            UnquotePlus(ret[1].query[j].value) = expected

\* C19 witness: a URL was built from settings that have both a top-level
\* START_TIME and a start_time among the custom parameters
C19_Witness ==
  /\ ret # <<>>
  /\ "START_TIME" \in DOMAIN arg.api_settings
  /\ CustomStartTimes(arg.api_settings) # {}
  /\ Len(CustomOf(arg.api_settings)) = 2

\* C20: every entry (name, value) of custom_params whose name is not
\* start_time is in the query of the URL built by build_osrm_url, with
\* that name and that value, whatever the value is.
C20_CustomParamsPassedThrough ==
  ret # <<>> =>
    \A j \in 1..Len(CustomOf(arg.api_settings)) :
      LET e == CustomOf(arg.api_settings)[j] IN
      e.name # "start_time" =>
        \E q \in QueryValues(e.name) :
          UnquotePlus(ret[1].query[q].value) = PyStr(e.value)

\* ======================================================================
\* One route, with the backoff sleeps logged
\* ======================================================================

\* draws of random.uniform(-jitter, jitter), in thousandths
JitterDraws == {-jitter, -(jitter \div 2), 0, jitter \div 2, jitter}

InitBackoff ==
  /\ df = <<GoodRow>>
  /\ batch_size = 1
  /\ max_workers = 1
  /\ NoDirectCall
  /\ Called

NextBackoff ==
  \/ Start
  \/ \E k \in DOMAIN task : TakeTask(k)
  \/ \E k \in DOMAIN task, http \in HttpOutcomes, u \in JitterDraws :
       RequestTimed(k, http, u)
  \/ \E k \in DOMAIN task : BackoffEnd(k)
  \/ \E k \in DOMAIN task : CollectResult(k)
  \/ ThrottleEnd

SpecBackoff == InitBackoff /\ [][NextBackoff]_vars

\* C21: between a retryable failure and the next request of the same
\* route the worker waits one backoff delay: request n+1 is issued only
\* after n sleeps, one after each of the n failures before it. The k-th
\* sleep (k = 1..max_retries) lasts d with
\* base_delay^k * (1 - jitter) <= d <= base_delay^k * (1 + jitter),
\* i.e. 2^k * 500 <= d <= 2^k * 1500 milliseconds.
C21_BackoffSchedule ==
  \A r \in DOMAIN task :
    /\ Len(ret) <= max_retries
    /\ \A k \in 1..Len(ret) :
         /\ TransportFailure(http_log[r][k])
         /\ (2 ^ k) * 500 <= ret[k]
         /\ ret[k] <= (2 ^ k) * 1500
    /\ task[r].pc \in {"requesting", "backoff"} => Len(http_log[r]) = Len(ret)
    /\ task[r].pc = "returned" =>
         /\ Len(http_log[r]) = Len(ret) + 1
         /\ ~(TransportFailure(Last(http_log[r])) /\ Len(ret) < max_retries)

\* C21 witness: the third retry is being waited for, after the longest
\* first sleep and the shortest second sleep
C21_Witness ==
  \E r \in DOMAIN task :
    /\ task[r].pc = "backoff"
    /\ Len(ret) = 3
    /\ ret[1] = 3000
    /\ ret[2] = 2000

\* ======================================================================
\* More properties of one process_route call (checked under SpecRoute)
\* ======================================================================

\* the three result fields of an outcome record
ResultFields == {"last_route_lon", "last_route_lat", "distance_to_dest"}

\* C22: in every outcome record returned by process_route, status is
\* "success" if and only if last_route_lon, last_route_lat and
\* distance_to_dest are all present (not None); in every non-success
\* record all three are None.
C22_OutcomeShape ==
  \A k \in DOMAIN task :
    task[k].pc = "returned" =>
      LET rec == task[k].rec[1] IN
      /\ rec.status = Status("success", "") <=>
           \A f \in ResultFields : rec[f] # None
      /\ rec.status # Status("success", "") =>
           \A f \in ResultFields : rec[f] = None

\* C22 witness: a success record returned after two retries, with a
\* distance
C22_Witness ==
  \E k \in DOMAIN task :
    /\ task[k].pc = "returned"
    /\ task[k].rec[1].status = Status("success", "")
    /\ task[k].rec[1].retries = 2
    /\ task[k].rec[1].distance_to_dest.t = "float"

\* the number a coordinate cell of the input row stands for
CellNumber(v) == IF v.t = "str" THEN ParsedText[v.s] ELSE v

\* C23: on both decoder paths the pair is (lon, lat): for a geometry the
\* last (lat, lon) point of the path, swapped; for a maneuver the location
\* as it is. process_route stores the first component as last_route_lon
\* and the second as last_route_lat, and distance_to_dest is the distance
\* between that point and the destination (dest_lon, dest_lat) of the row,
\* not the origin.
C23_CoordinateOrder ==
  \A k \in DOMAIN task :
    (task[k].pc = "returned" /\ task[k].rec[1].status = Status("success", ""))
      =>
      LET rec == task[k].rec[1]
          step == FinalStep(Last(http_log[k]).body)
          pair == IF HasPath(step)
                    THEN <<Float(PathOf(step).path[Len(PathOf(step).path)][2]),
                           Float(PathOf(step).path[Len(PathOf(step).path)][1])>>
                    ELSE step.maneuver.location
          dest_lon == CellNumber(RowOf(k).dest_lon)
          dest_lat == CellNumber(RowOf(k).dest_lat)
      IN /\ rec.last_route_lon = pair[1]
         /\ rec.last_route_lat = pair[2]
         /\ IF dest_lon.s = "" /\ dest_lat.s = ""
              THEN rec.distance_to_dest =
                     [t |-> "float",
                      hav |-> <<pair[1], pair[2], dest_lon, dest_lat>>]
              ELSE rec.distance_to_dest = NaN

\* C23 witness: a success record for a reply whose last step has a
\* geometry and another maneuver location, the row's origin and
\* destination being different points
C23_Witness ==
  \E k \in DOMAIN task :
    /\ task[k].pc = "returned"
    /\ task[k].rec[1].status = Status("success", "")
    /\ HasPath(FinalStep(Last(http_log[k]).body))
    /\ task[k].rec[1].last_route_lon = Float(2)
    /\ task[k].rec[1].last_route_lat = Float(1)
    /\ RowOf(k).origin_lon # RowOf(k).dest_lon
    /\ "hav" \in DOMAIN task[k].rec[1].distance_to_dest

\* ======================================================================
\* The three-route run, with the api_settings mapping it was called with
\* ======================================================================

\* validate_routes(df, api_settings, ...): arg is the api_settings mapping,
\* which process_route and build_osrm_url only read (lines 95-128, 164-168)
InitShared ==
  /\ df = <<GoodRow, GoodRow, GoodRow>>
  /\ batch_size \in 1..Len(df)
  /\ max_workers \in 1..Len(df)
  /\ concat_raises = FALSE
  /\ arg \in {s \in ApiSettings :
                "CUSTOM_PARAMS" \in DOMAIN s => Len(s.CUSTOM_PARAMS) = 1}
  /\ Called

SpecShared == InitShared /\ [][NextScenario]_vars

\* a step of a worker: the state of some process_route call changes
WorkerStep == task' # task /\ ~Submits
\* the results list or a counter of process_batch is written
AccumulatorWritten ==
  <<results, success_count, error_count, retry_count>>'
    # <<results, success_count, error_count, retry_count>>

C24_Step ==
  /\ arg' = arg
  /\ WorkerStep => UNCHANGED <<results, success_count, error_count,
                               retry_count, yielded>>
  /\ (AccumulatorWritten /\ ~Submits) =>
       /\ pc = "collect"
       /\ task' = task
       /\ \E k \in DOMAIN task :
            /\ Finished(k)
            /\ k \notin yielded
            /\ yielded' = yielded \cup {k}

\* C24: during a run no worker task writes to the api_settings mapping, to
\* the batch's results list or to the success/error/retry counters; the
\* list and the counters are written only by the thread running
\* process_batch, for a task that has completed, and api_settings is the
\* same after the run as before.
C24_NoSharedWrites == [][C24_Step]_vars

\* C24 witness: a result is being booked while two other routes are with
\* the workers, one of them waiting in a backoff
C24_Witness ==
  /\ pc = "throttle"
  /\ Len(results) = 1
  /\ \E k \in DOMAIN task : task[k].pc = "backoff"
  /\ \E k \in DOMAIN task : task[k].pc = "requesting"
  /\ "START_TIME" \in DOMAIN arg

\* ------------------------------------------------------------------- C25

\* process_batch has returned: validate_routes pauses, returns or raises
BatchReturned == pc \in {"cooldown", "done", "raised"}

\* as_completed yields one more future of the current batch
Yields == yielded' # yielded /\ ~Submits

C25_Step ==
  Yields => pc = "collect" /\ throttles' = throttles + 1 /\ pc' = "throttle"

\* C25: within a batch every collected completion is followed by one sleep of
\* request_delay that ends before the next completion is collected, so a
\* batch of n rows has made exactly n such sleeps when process_batch returns.
C25_ResultThrottle ==
  /\ [](BatchReturned /\ task # <<>> => throttles = Len(task))
  /\ [][C25_Step]_vars

\* ------------------------------------------------------------------- C26

\* the retry counter of route k: the local of a running call, the retries
\* field of the record of a call that returned
RetryCounter(k) ==
  IF task[k].pc = "returned" THEN task[k].rec[1].retries
  ELSE task[k].retry_count

\* C26: a route that passed the coordinate validation has issued as many HTTP
\* requests as the retries value of its outcome plus one; the retry counter of
\* every route stays within 0..max_retries, so no route issues more than
\* max_retries + 1 requests.
C26_RequestCountBound ==
  \A k \in DOMAIN task :
    /\ RetryCounter(k) \in 0..max_retries
    /\ Len(http_log[k]) <= max_retries + 1
    /\ http_log[k] # <<>> => task[k].pc \in {"requesting", "backoff", "returned"}
    /\ (task[k].pc = "returned" /\ http_log[k] # <<>>) =>
         Len(http_log[k]) = task[k].rec[1].retries + 1
    /\ task[k].pc = "requesting" => Len(http_log[k]) = task[k].retry_count
    /\ task[k].pc = "backoff" => Len(http_log[k]) = task[k].retry_count

\* C26 witness: a route returned a successful outcome on its last allowed
\* request, after max_retries retries
C26_Witness ==
  \E k \in DOMAIN task :
    /\ task[k].pc = "returned"
    /\ task[k].rec[1].status = Success
    /\ task[k].rec[1].retries = max_retries
    /\ Len(http_log[k]) = max_retries + 1

\* ======================================================================
\* show_validation (src/ui/validation.py): the advanced settings
\* ======================================================================

\* lines 74-89: values of the "Max Retries" and "Base Delay (seconds)"
\* sliders (both range over 1..10): the ends of the range and the defaults
MaxRetriesSlider == {1, 3, 10}
BaseDelaySlider == {1, 2, 10}

\* lines 74-89, 155-162: the sliders are set and validate_routes is called
\* with the table, batch_size, max_workers and request_delay only
InitUi ==
  /\ df = <<GoodRow>>
  /\ batch_size \in {1, 2}
  /\ max_workers \in {1, 2}
  /\ concat_raises = FALSE
  /\ arg \in [max_retries : MaxRetriesSlider, base_delay : BaseDelaySlider]
  /\ Called

\* the run, the random draw of each backoff at an end of its range
NextUi ==
  \/ Start
  \/ \E k \in DOMAIN task : TakeTask(k)
  \/ \E k \in DOMAIN task, http \in RunHttpOutcomes, u \in {-jitter, jitter} :
       RequestTimed(k, http, u)
  \/ \E k \in DOMAIN task : BackoffEnd(k)
  \/ \E k \in DOMAIN task : CollectResult(k)
  \/ ThrottleEnd

SpecUi == InitUi /\ [][NextUi]_vars

\* ------------------------------------------------------------------- C28

C29_EmptyInput ==
  total_rows = 0 =>
    /\ total_batches = 0
    /\ pc \in {"start", "done"}
    /\ task = <<>> /\ http_log = <<>>
    /\ batch_status = <<>> /\ all_results = <<>>
    /\ cooldowns = 0 /\ throttles = 0
    /\ pc = "done" => results_df = NoneList /\ validation_stats = <<>>

\* C29 witness: the call on an empty table has returned, with a batch size
\* larger than 1
C29_Witness ==
  /\ total_rows = 0
  /\ batch_size > 1
  /\ pc = "done"
  /\ results_df = NoneList

\* ------------------------------------------------------------------- C30

\* the query parameters build_osrm_url always sets from the configuration,
\* each with the setting it is read from
Recognized ==
  {<<"access_token", "ACCESS_TOKEN">>, <<"overview", "OVERVIEW">>,
   <<"steps", "STEPS">>, <<"geometries", "GEOMETRIES">>,
   <<"approaches", "APPROACHES">>}

\* the entries of custom_params that have a non-empty text under a name
NonEmptyCustom(settings, name) ==
  {j \in 1..Len(CustomOf(settings)) :
     /\ CustomOf(settings)[j].name = name
     /\ CustomOf(settings)[j].value.t = "str"
     /\ CustomOf(settings)[j].value.s # ""}

\* C30: in the URL built by build_osrm_url every parameter name occurs once;
\* a recognized parameter carries the non-empty custom value given under its
\* name, if there is one, and the configured value otherwise; and once a
\* top-level START_TIME is set, start_time is the only name whose non-empty
\* custom value is not carried.
C30_CustomOverride ==
  ret # <<>> =>
    LET settings == arg.api_settings
        query == ret[1].query
        custom == CustomOf(settings)
    IN /\ \A j, k \in 1..Len(query) : j # k => query[j].name # query[k].name
       /\ \A p \in Recognized :
            /\ Cardinality(QueryValues(p[1])) = 1
            /\ \A q \in QueryValues(p[1]) :
                 UnquotePlus(query[q].value) =
                   IF NonEmptyCustom(settings, p[1]) # {}
                     THEN custom[CHOOSE j \in NonEmptyCustom(settings, p[1]) :
                                   TRUE].value.s
                     ELSE settings[p[2]].s
       /\ "START_TIME" \in DOMAIN settings =>
            \A j \in 1..Len(custom) :
              j \in NonEmptyCustom(settings, custom[j].name) =>
                \E q \in QueryValues(custom[j].name) :
                  UnquotePlus(query[q].value) =
                    IF custom[j].name = "start_time"
                      THEN settings.START_TIME.s
                      ELSE custom[j].value.s

\* C30 witness: a URL was built from settings with a top-level START_TIME and
\* custom values for overview and start_time; it carries the custom overview
C30_Witness ==
  /\ ret # <<>>
  /\ "START_TIME" \in DOMAIN arg.api_settings
  /\ NonEmptyCustom(arg.api_settings, "overview") # {}
  /\ NonEmptyCustom(arg.api_settings, "start_time") # {}
  /\ \E q \in QueryValues("overview") : ret[1].query[q].value = "full"

\* ======================================================================
\* Whole runs in which every call returns and every sleep ends
\* ======================================================================

\* requests.get returns or fails within its timeout (line 175), the sleeps
\* of lines 314 and 402 and of add_retry_delay end, the executor starts a
\* queued call when a worker is free, and the aggregating thread runs.
SpecFair ==
  /\ Init
  /\ [][Next]_vars
  /\ WF_vars(Start)
  /\ WF_vars(\E k \in DOMAIN task : TakeTask(k))
  /\ WF_vars(\E k \in DOMAIN task, http \in RunHttpOutcomes : Request(k, http))
  /\ WF_vars(\E k \in DOMAIN task : BackoffEnd(k))
  /\ WF_vars(\E k \in DOMAIN task : CollectResult(k))
  /\ WF_vars(\E k \in DOMAIN task : CollectException(k))
  /\ WF_vars(ThrottleEnd)
  /\ WF_vars(CooldownEnd)

\* ------------------------------------------------------------------- C27

\* every process_route call of the current batch is over
AllFinished == \A k \in DOMAIN task : Finished(k)

\* C27: when every HTTP call returns or fails and every sleep ends, the
\* calls of each batch all reach their end, and validate_routes eventually
\* returns, having processed all of its batches.
C27_RunTermination ==
  /\ (pc \in {"collect", "throttle"}) ~> AllFinished
  /\ <>(pc = "done" /\ Len(all_results) = total_batches)

============================================================================
